---- MODULE Spec2Model ----
(***************************************************************************)
(* Model of the resume-screening assistant: the persistence layer          *)
(* (src/src/database.py) over a bounded psycopg2 connection pool, and the  *)
(* evaluation client (src/src/ai_evaluator.py) as driven by the            *)
(* evaluation page (src/src/main.py).                                      *)
(*                                                                         *)
(* Numbers that Python holds as float are kept in hundredths (0.85 is 85). *)
(* Python/JSON values are tagged records so that a conversion (float(),    *)
(* bool(), json.dumps, json.loads, the driver's JSONB typecast) is         *)
(* computed and can fail, as in the code.                                  *)
(***************************************************************************)
EXTENDS Integers, Sequences, FiniteSets, TLC

\* ------------------------------------------------------------------ bounds
MaxJobs == 2
MaxEvals == 2
MaxCriteria == 2
PoolMaxJobs == 1
PoolMaxEvals == 1
EvalMaxEvals == 1
QueryMaxJobs == 1
QueryMaxEvals == 2
TicksPerDay == 2
MaxBatch == 3
MaxSecond == 1

\* ------------------------------------------------------- program constants
maxconn == 10

\* --------------------------------------------------- Python / JSON values
None == [t |-> "none"]
Str(s) == [t |-> "str", s |-> s]
Num(h) == [t |-> "num", h |-> h]
Bool(b) == [t |-> "bool", b |-> b]
Obj(o) == [t |-> "obj", o |-> o]
List(l) == [t |-> "list", l |-> l]
\* a raised exception, as the value of the expression that raised it
Raised(e) == [t |-> "raised", e |-> e]

IsRaised(v) == v.t = "raised"

\* dict.get(key, default)
Get(d, k, default) == IF k \in DOMAIN d THEN d[k] ELSE default

\* numeric text that float() accepts, with its value in hundredths
FloatText == [x \in {"0.85", "0.4", "5.5", "3"} |->
                CASE x = "0.85" -> 85 [] x = "0.4" -> 40
                  [] x = "5.5" -> 550 [] x = "3" -> 300]

\* float(v)
Float(v) ==
    CASE v.t = "num" -> v
      [] v.t = "bool" -> Num(IF v.b THEN 100 ELSE 0)
      [] v.t = "str" -> IF v.s \in DOMAIN FloatText THEN Num(FloatText[v.s])
                        ELSE Raised("ValueError")
      [] OTHER -> Raised("TypeError")

\* bool(v): Python truthiness
Truthy(v) ==
    CASE v.t = "none" -> FALSE
      [] v.t = "bool" -> v.b
      [] v.t = "num" -> v.h # 0
      [] v.t = "str" -> v.s # ""
      [] v.t = "list" -> v.l # <<>>
      [] v.t = "obj" -> DOMAIN v.o # {}
      [] OTHER -> TRUE

\* json.dumps(v): the encoded text of v
JsonDumps(v) == [t |-> "text", json |-> v]

\* json.loads(x): decodes text; any other argument is a TypeError, text that
\* is no JSON document a JSONDecodeError
JsonLoads(x) ==
    IF x.t = "text" THEN x.json
    ELSE IF x.t = "str" THEN Raised("JSONDecodeError")
    ELSE Raised("TypeError")

\* what the driver hands back for a JSONB column: psycopg2 typecasts
\* json/jsonb to the decoded Python object
JsonbRead(x) == IF x.t = "text" THEN x.json ELSE x

VARIABLES
    jobs,       \* table job_descriptions: sequence of rows, id = index
    criteria,   \* table evaluation_criteria: sequence of rows, id = index
    evals,      \* table evaluations: set of rows, each with its id
    evalSeq,    \* last value of the evaluations id sequence
    written,    \* id -> the evaluation_result handed to save_evaluation
    now,        \* the database server's clock, in ticks
    used,       \* connections checked out of the pool (len(pool._used))
    busy,       \* of these, held by operations of other threads
    pc,         \* the session's script thread: "idle", "getconn", "exec"
    op,         \* its Database operation (in progress, or the last one)
    qn,         \* which execute_query call of the operation it is in
    job_id,     \* add_job_description's local job_id (0: unset)
    res,        \* how its last operation ended: "none", "ok", "error"
    ret,        \* what its last operation returned, or the exception raised
    fpc,        \* the "Evaluate Resume" handler of show_evaluation: its position
    job,        \* its selected job (a row of get_all_jobs), or None
    sel_criteria,        \* its local criteria
    candidate_info,      \* evaluate_resume's local candidate_info
    experience_analysis, \* evaluate_resume's local experience_analysis
    evaluation, \* what evaluate_resume returned, or the exception it raised
    calls,      \* requests sent to the providers by the current evaluate_resume,
                \* and the records the handler has saved
    eval_reply, \* what its evaluation request yielded
    experience_reply, \* what its experience-analysis request yielded
    identity_failed, \* whether each identity-extraction attempt of it failed
    submitted,  \* how many resumes the user handed to the uploader
    entry,      \* the script the session runs: src/src/main.py or src/main.py
    components, \* st.session_state.components: "unset", "None" or "ready"
    rendered,   \* what the last run of the script did: "none" before the
                \* first, "blocked" (error notice and return), or the page
                \* whose handler it called
    evaluations, \* Evaluations tab: the rows its loop has still to display
    cards,      \* Evaluations tab: per row displayed, its id, whether the
                \* card got its details ("card") or the row's exception was
                \* logged ("error"), and the exception logged
    report,     \* the last report made: the function called, the evaluations
                \* it was given, and the document built or the exception raised
    tmp,        \* tempfile.gettempdir(): the files in it, path and content
    second,     \* datetime.now() to the second
    up,         \* per session, its extract_text_from_upload call: position,
                \* uploaded_file, file_path, text read, and what it returned
    selected,   \* New Evaluation tab: the id of the job whose entry the user
                \* picked in the selectbox, 0 before a pick
    seen        \* what the last get_all_jobs of another session returned

dbVars == <<jobs, criteria, evals, evalSeq, written, now>>
poolVars == <<used, busy>>
thVars == <<pc, op, qn, job_id, res, ret>>
handlerVars == <<fpc, job, sel_criteria, candidate_info, experience_analysis,
                 evaluation, calls, eval_reply, experience_reply,
                 identity_failed, submitted>>
appVars == <<entry, components, rendered>>
listVars == <<evaluations, cards>>
reportVars == <<report>>
uploadVars == <<tmp, second, up>>
pickVars == <<selected, seen>>
flowVars == <<handlerVars, appVars, listVars, reportVars, uploadVars, pickVars>>
vars == <<jobs, criteria, evals, evalSeq, written, now, used, busy,
          pc, op, qn, job_id, res, ret,
          fpc, job, sel_criteria, candidate_info, experience_analysis,
          evaluation, calls, eval_reply, experience_reply, identity_failed,
          submitted, entry, components, rendered, evaluations, cards,
          report, tmp, second, up, selected, seen>>

\* the sessions that upload files at the same time
Sessions == {1, 2}

\* a session that is not in extract_text_from_upload
NoUpload == [pc |-> "idle", uploaded_file |-> None, reader |-> "none",
             file_path |-> None, text |-> None, result |-> None]

\* no report made yet
NoReport == [name |-> "none", evaluations |-> <<>>, document |-> None]

\* ------------------------------------------------------------------ inputs
Titles == {"Engineer"}
Descriptions == {"JD"}

\* the criteria dict the job form builds (main.py 137-145)
FormCriteria ==
    [min_years_experience |-> Num(300),
     required_skills |-> List(<<"python">>),
     preferred_skills |-> List(<<>>),
     education_requirements |-> Str("BSc"),
     company_background_requirements |-> Str("product"),
     domain_experience_requirements |-> Str("hr"),
     additional_instructions |-> Str("")]

\* the criteria a job's existing ones are replaced by
NewCriteria == [FormCriteria EXCEPT !.min_years_experience = Num(500),
                                    !.required_skills = List(<<"sql">>)]

\* evaluation_criteria arguments: None, or a dict
CriteriaInputs == {None, Obj(FormCriteria)}

\* -------------------------------------------------- the evaluation client
\* the identity record returned when extraction fails
NotProvidedInfo ==
    [name |-> Str("Not provided"), email |-> Str("Not provided"),
     phone |-> Str("Not provided"), location |-> Str("Not provided"),
     linkedin |-> Str("Not provided"), education |-> Str("Not provided"),
     total_experience |-> Str("Not provided"), key_skills |-> List(<<>>)]

InfoKeys == {"name", "email", "phone", "location", "linkedin", "education",
             "total_experience"}

\* the validate-and-clean loop of _extract_candidate_info on a parsed result:
\* a missing, falsy or 'none'/'null' field becomes "Not provided"; .lower() of
\* a truthy value that is no string raises AttributeError
CleanRaises(result) ==
    \E k \in InfoKeys : k \in DOMAIN result /\ Truthy(result[k])
                        /\ result[k].t # "str"

CleanField(result, k) ==
    IF k \notin DOMAIN result \/ ~Truthy(result[k])
       \/ result[k].s \in {"none", "null", "None", "NULL", "Null", ""}
    THEN Str("Not provided") ELSE result[k]

CleanInfo(result) ==
    [k \in InfoKeys \cup {"key_skills"} |->
        IF k = "key_skills"
        THEN IF k \in DOMAIN result /\ result[k].t = "list"
             THEN result[k] ELSE List(<<>>)
        ELSE CleanField(result, k)]

\* mutant: a failed extraction returns an empty record
InfoFromParsed_empty(parsed) ==
    IF IsRaised(parsed) \/ parsed.t # "obj" THEN <<>>
    ELSE IF CleanRaises(parsed.o) THEN <<>>
    ELSE CleanInfo(parsed.o)

\* _extract_candidate_info from the parse of a provider's reply on: what the
\* reply decodes to (a dict, or the exception json.loads raised)
InfoFromParsed(parsed) ==
    IF IsRaised(parsed) \/ parsed.t # "obj" THEN NotProvidedInfo
    ELSE IF CleanRaises(parsed.o) THEN NotProvidedInfo
    ELSE CleanInfo(parsed.o)

\* the merge at the end of evaluate_resume: the model's keys, then the three
\* keys evaluate_resume sets (which win over the model's)
OwnKeys == {"candidate_info", "years_of_experience", "evaluation_date"}

final_result(evaluation_result, info, experience) ==
    [k \in DOMAIN evaluation_result \cup OwnKeys |->
        CASE k = "candidate_info" -> Obj(info)
          [] k = "years_of_experience" -> Obj(experience)
          [] k = "evaluation_date" -> Str("now")
          [] OTHER -> evaluation_result[k]]

\* _extract_years_from_text on str(v): the first number in the text
YearsText == [x \in {"0.85", "0.4", "5.5", "3", "5 years", "senior"} |->
                CASE x = "5 years" -> 500 [] x = "senior" -> 0
                  [] OTHER -> FloatText[x]]

extract_years_from_text(v) ==
    CASE v.t = "num" -> Num(v.h)
      [] v.t = "str" /\ v.s \in DOMAIN YearsText -> Num(YearsText[v.s])
      [] OTHER -> Num(0)

ExperienceFailed(min_years) ==
    [total |-> Num(0), relevant |-> Num(0), required |-> Float(min_years),
     meets_requirement |-> Bool(FALSE),
     details |-> Str("Failed to analyze experience"),
     quality_score |-> Num(0)]

Clamp01(n) == Num(IF n.h < 0 THEN 0 ELSE IF n.h > 100 THEN 100 ELSE n.h)

\* _analyze_experience from the provider's reply on: the reply is the
\* exception the request raised, or the text of the message
analyze_experience(reply, min_years) ==
    LET parsed == IF IsRaised(reply) THEN reply ELSE JsonLoads(reply)
    IN  IF IsRaised(parsed) \/ parsed.t # "obj" THEN ExperienceFailed(min_years)
        ELSE LET result == parsed.o
                 total_years == extract_years_from_text(
                                    Get(result, "total_years", Str("0")))
                 relevant_years == extract_years_from_text(
                                       Get(result, "relevant_years", Str("0")))
                 quality_score == Float(Get(result, "quality_score", Num(0)))
             IN  IF IsRaised(quality_score) THEN ExperienceFailed(min_years)
                 ELSE [total |-> total_years,
                       relevant |-> relevant_years,
                       required |-> Float(min_years),
                       meets_requirement |->
                           Bool(relevant_years.h >= Float(min_years).h),
                       details |-> Get(result, "experience_details",
                                       Str("No details provided")),
                       quality_score |-> Clamp01(quality_score)]

\* replies of the main evaluation call that parse as JSON
FullReply ==
    [decision |-> Str("SHORTLIST"), justification |-> Str("fits"),
     match_score |-> Num(85), confidence_score |-> Num(90),
     key_matches |-> Obj([skills |-> List(<<"python">>)]),
     missing_requirements |-> List(<<>>)]

TextScoreReply ==
    [decision |-> Str("REJECT"), justification |-> Str("gaps"),
     match_score |-> Str("0.4"), confidence_score |-> Num(90),
     key_matches |-> Obj([skills |-> List(<<>>)]),
     missing_requirements |-> List(<<"sql">>)]

NoDecisionReply ==
    [justification |-> Str("fits"), match_score |-> Num(85),
     key_matches |-> Obj([skills |-> List(<<"python">>)]),
     missing_requirements |-> List(<<>>)]

JsonReplies == {FullReply, TextScoreReply, NoDecisionReply}

\* a reply of the experience-analysis call that parses as JSON
ExperienceReply ==
    [total_years |-> Str("5.5"), relevant_years |-> Str("3"),
     experience_details |-> Str("analysis"), quality_score |-> Str("0.85")]

\* replies of the identity-extraction call that parse as JSON
GoodInfo ==
    [name |-> Str("Ann Lee"), email |-> Str("ann@x.org"), phone |-> Str("555"),
     location |-> Str("Pune"), linkedin |-> Str("in/ann"),
     education |-> Str("BSc"), total_experience |-> Str("5 years"),
     key_skills |-> List(<<"python">>)]

PartialInfo ==
    [name |-> Str("Ann Lee"), email |-> Str("null"), phone |-> None,
     key_skills |-> Str("python")]

NumericInfo == [GoodInfo EXCEPT !.total_experience = Num(500)]

\* what a provider request yields: the exception it raised, the text of a
\* message that is no JSON document, or the text of a JSON document
ApiError == Raised("APIError")
NotJson == Str("Sure! Here is the evaluation")
Replies(docs) == {ApiError, NotJson} \cup {JsonDumps(Obj(d)) : d \in docs}

\* response.content of an Anthropic message: a list of content blocks
AnthropicContent == List(<<"TextBlock">>)

\* results handed to save_evaluation: what evaluate_resume can return
ResultInputs ==
    {final_result(r, NotProvidedInfo,
                  analyze_experience(JsonDumps(Obj(ExperienceReply)), Num(300))) :
        r \in JsonReplies}

\* ----------------------------------------------------- the SQL statements
\* INSERT INTO job_descriptions (title, description): active defaults to true
InsertJob(js, title, description) ==
    Append(js, [title |-> title, description |-> description, active |-> TRUE])

\* mutant: the UPDATE flips the flag (SET active = NOT active)
delete_job_toggle(js, id) ==
    [i \in DOMAIN js |-> IF i = id THEN [js[i] EXCEPT !.active = ~@] ELSE js[i]]

\* UPDATE job_descriptions SET active = false WHERE id = job_id
delete_job_rows(js, id) ==
    [i \in DOMAIN js |-> IF i = id THEN [js[i] EXCEPT !.active = FALSE] ELSE js[i]]

\* add_job_description's handling of min_years_experience (156-163)
MinYears(c) ==
    LET v == Get(c, "min_years_experience", None)
    IN  CASE v.t = "str" -> IF v.s \in DOMAIN FloatText /\ FloatText[v.s] % 100 = 0
                            THEN Num(FloatText[v.s]) ELSE Num(0)
          [] v.t = "num" /\ v.h % 100 = 0 -> v
          [] OTHER -> Num(0)

\* the row add_job_description inserts into evaluation_criteria: the
\* statement names no company_background_requirements column, which stays NULL
JobCriteriaRow(id, c) ==
    [job_id |-> id,
     min_years_experience |-> MinYears(c),
     required_skills |-> JsonDumps(Get(c, "required_skills", List(<<>>))),
     preferred_skills |-> JsonDumps(Get(c, "preferred_skills", List(<<>>))),
     education_requirements |-> Get(c, "education_requirements", Str("")),
     company_background_requirements |-> None,
     domain_experience_requirements |-> Get(c, "domain_experience_requirements", Str("")),
     additional_instructions |-> Get(c, "additional_instructions", Str(""))]

\* the parameter tuple save_evaluation builds (236-263)
save_evaluation_params(jid, resume_name, r) ==
    LET ci == Get(r, "candidate_info", Obj(<<>>)).o
        yoe == Get(r, "years_of_experience", Obj(<<>>)).o
    IN  [job_id |-> jid,
         resume_name |-> resume_name,
         candidate_name |-> Get(ci, "name", Str("")),
         candidate_email |-> Get(ci, "email", Str("")),
         candidate_phone |-> Get(ci, "phone", Str("")),
         candidate_location |-> Get(ci, "location", Str("")),
         linkedin_profile |-> Get(ci, "linkedin", Str("")),
         result |-> Get(r, "decision", Str("")),
         justification |-> Get(r, "justification", Str("")),
         match_score |-> Float(Get(r, "match_score", Num(0))),
         confidence_score |-> Float(Get(r, "confidence_score", Num(0))),
         years_experience_total |-> Float(Get(yoe, "total", Num(0))),
         years_experience_relevant |-> Float(Get(yoe, "relevant", Num(0))),
         years_experience_required |-> Float(Get(yoe, "required", Num(0))),
         meets_experience_requirement |->
             Bool(Truthy(Get(yoe, "meets_requirement", Bool(FALSE)))),
         key_matches |-> JsonDumps(Get(r, "key_matches", List(<<>>))),
         missing_requirements |-> JsonDumps(Get(r, "missing_requirements", List(<<>>))),
         experience_analysis |-> Get(yoe, "details", Str("")),
         evaluation_data |-> JsonDumps(Obj(r))]

FloatColumns == {"match_score", "confidence_score", "years_experience_total",
                 "years_experience_relevant", "years_experience_required"}

\* a float() in the tuple raised: save_evaluation raises before any query
ParamsRaise(p) == \E k \in FloatColumns : IsRaised(p[k])

NotNullColumns == {"resume_name", "result", "justification"}

\* mutant: the evaluations table without its REFERENCES constraint
InsertEvaluationFails_nofk(js, p) ==
    \/ \E k \in {"resume_name", "result", "justification"} : p[k].t = "none"
    \/ \E k \in DOMAIN p : k # "job_id" /\ p[k].t = "obj"

\* the INSERT INTO evaluations is rejected: job_id REFERENCES
\* job_descriptions(id), the NOT NULL columns, and a dict the driver cannot adapt
InsertEvaluationFails(js, p) ==
    \/ p.job_id \notin DOMAIN js
    \/ \E k \in NotNullColumns : p[k].t = "none"
    \/ \E k \in DOMAIN p : k # "job_id" /\ p[k].t = "obj"

\* mutant: the new row replaces the stored rows of the same job
InsertEvaluation_replace(es, id, p) ==
    {e \in es : e.job_id # p.job_id}
        \cup {[k \in DOMAIN p \cup {"id", "evaluation_date"} |->
                 CASE k = "id" -> id
                   [] k = "evaluation_date" -> now
                   [] OTHER -> p[k]]}

\* the row the INSERT adds, with the id the sequence gives it and
\* evaluation_date TIMESTAMP DEFAULT CURRENT_TIMESTAMP
InsertEvaluation(es, id, p) ==
    es \cup {[k \in DOMAIN p \cup {"id", "evaluation_date"} |->
                 CASE k = "id" -> id
                   [] k = "evaluation_date" -> now
                   [] OTHER -> p[k]]}

\* mutant: the oldest evaluation only is deleted
clear_evaluations_first(es) == {e \in es : e.id # 1}

\* DELETE FROM evaluations
clear_evaluations_rows(es) == {}

\* get_evaluation_details: the dict built from the row, or the exception a
\* json.loads in it raises; evaluation_data is a JSONB column
get_evaluation_details_row(row) ==
    LET km == JsonLoads(row.key_matches)
        mr == JsonLoads(row.missing_requirements)
        ed == JsonLoads(JsonbRead(row.evaluation_data))
    IN  IF IsRaised(km) THEN km
        ELSE IF IsRaised(mr) THEN mr
        ELSE IF IsRaised(ed) THEN ed
        ELSE Obj([id |-> row.id, job_id |-> row.job_id,
                  resume_name |-> row.resume_name,
                  result |-> row.result,
                  justification |-> row.justification,
                  match_score |-> row.match_score,
                  years_experience_total |-> row.years_experience_total,
                  years_experience_relevant |-> row.years_experience_relevant,
                  years_experience_required |-> row.years_experience_required,
                  meets_experience_requirement |-> row.meets_experience_requirement,
                  key_matches |-> km,
                  missing_requirements |-> mr,
                  experience_analysis |-> row.experience_analysis,
                  evaluation_data |-> ed])

\* mutant: the jobs are joined with their criteria rows
get_all_jobs_joined(js, cs) ==
    {[id |-> i, title |-> js[i].title, description |-> js[i].description,
      has_criteria |-> TRUE] :
        i \in {j \in DOMAIN js : js[j].active
                                  /\ \E n \in DOMAIN cs : cs[n].job_id = j}}

\* get_all_jobs: the active jobs, each with has_criteria
get_all_jobs_rows(js, cs) ==
    {[id |-> i, title |-> js[i].title, description |-> js[i].description,
      has_criteria |-> \E n \in DOMAIN cs : cs[n].job_id = i] :
        i \in {j \in DOMAIN js : js[j].active}}

\* get_evaluation_criteria: the dict built from the first row found
get_evaluation_criteria_row(row) ==
    LET rs == IF Truthy(row.required_skills)
              THEN JsonLoads(row.required_skills) ELSE List(<<>>)
        ps == IF Truthy(row.preferred_skills)
              THEN JsonLoads(row.preferred_skills) ELSE List(<<>>)
        OrEmpty(v) == IF Truthy(v) THEN v ELSE Str("")
    IN  IF IsRaised(rs) \/ IsRaised(ps) THEN None
        ELSE Obj([min_years_experience |->
                      IF row.min_years_experience.t = "none" THEN Num(0)
                      ELSE row.min_years_experience,
                  required_skills |-> rs,
                  preferred_skills |-> ps,
                  education_requirements |-> OrEmpty(row.education_requirements),
                  company_background_requirements |->
                      OrEmpty(row.company_background_requirements),
                  domain_experience_requirements |->
                      OrEmpty(row.domain_experience_requirements),
                  additional_instructions |-> OrEmpty(row.additional_instructions)])

get_evaluation_criteria_rows(cs, id) ==
    LET found == {n \in DOMAIN cs : cs[n].job_id = id}
    IN  IF found = {} THEN None
        ELSE get_evaluation_criteria_row(
                 cs[CHOOSE n \in found : \A m \in found : n <= m])

\* ------------------------------------------------- the period queries
\* mutant: a period that is not named falls back to the month
time_filter_month(period) ==
    CASE period = "week" -> 7
      [] period = "quarter" -> 90
      [] period = "year" -> 365
      [] OTHER -> 30

\* the INTERVAL get_evaluations_by_period puts in its query, in days
time_filter(period) ==
    CASE period = "week" -> 7
      [] period = "month" -> 30
      [] period = "quarter" -> 90
      [] OTHER -> 365

\* DATE(e.evaluation_date): the day a timestamp falls on
DATE(ts) == ts \div TicksPerDay

\* the SELECT lists of get_evaluations_by_period and
\* get_evaluations_by_date_range, each followed by j.title as job_title
PeriodColumns ==
    <<"id", "job_id", "resume_name", "candidate_name", "candidate_email",
      "candidate_phone", "result", "justification", "match_score",
      "years_experience_total", "years_experience_relevant",
      "years_experience_required", "meets_experience_requirement",
      "evaluation_date", "evaluation_data">>

RangeColumns ==
    <<"id", "job_id", "resume_name", "result", "justification", "match_score",
      "years_experience_total", "years_experience_relevant",
      "years_experience_required", "meets_experience_requirement",
      "key_matches", "missing_requirements", "experience_analysis",
      "evaluation_date", "evaluation_data">>

\* a row as the default cursor returns it: a tuple of the columns in order
SelectRow(cols, e, js) ==
    [i \in 1..(Len(cols) + 1) |->
        IF i > Len(cols) THEN js[e.job_id].title
        ELSE IF cols[i] = "evaluation_data" THEN JsonbRead(e.evaluation_data)
        ELSE e[cols[i]]]

\* ORDER BY e.evaluation_date DESC: the orders the rows can come in (rows
\* of one timestamp in any order)
OrderByDateDesc(es) ==
    {s \in [1..Cardinality(es) -> es] :
        \A i, j \in 1..Cardinality(es) :
            i < j => /\ s[i] # s[j]
                     /\ s[i].evaluation_date >= s[j].evaluation_date}

\* FROM evaluations e JOIN job_descriptions j ON e.job_id = j.id
\* WHERE e.evaluation_date >= NOW() - INTERVAL
get_evaluations_by_period_rows(es, js, period, t) ==
    {e \in es : /\ e.job_id \in DOMAIN js
                /\ e.evaluation_date >= t - time_filter(period) * TicksPerDay}

\* mutant: the timestamp itself is compared with the two dates, so the end
\* date stands for its midnight
get_evaluations_by_date_range_ts(es, js, start_date, end_date) ==
    {e \in es : /\ e.job_id \in DOMAIN js
                /\ start_date * TicksPerDay <= e.evaluation_date
                /\ e.evaluation_date <= end_date * TicksPerDay}

\* ... WHERE DATE(e.evaluation_date) BETWEEN start_date AND end_date
get_evaluations_by_date_range_rows(es, js, start_date, end_date) ==
    {e \in es : /\ e.job_id \in DOMAIN js
                /\ start_date <= DATE(e.evaluation_date)
                /\ DATE(e.evaluation_date) <= end_date}

\* ------------------------------------------------------------ Analytics
EmptyStats ==
    [total_evaluations |-> Num(0), shortlisted |-> Num(0),
     rejection_rate |-> Num(0), avg_experience |-> Num(0),
     top_skills |-> List(<<>>), education_levels |-> Obj(<<>>)]

\* str.lower() on the decisions stored
Lower(x) ==
    CASE x = "SHORTLIST" -> "shortlist"
      [] x = "REJECT" -> "reject"
      [] OTHER -> x

\* _extract_top_skills and _extract_education_levels: evaluation_data comes
\* decoded, so isinstance(eval_data, str) is false for every row (and a str
\* has no get: the except skips it); nothing is collected
extract_top_skills(rows) == List(<<>>)
extract_education_levels(rows) == Obj(<<>>)

\* mutant: no early return on an empty list, and a rate of 100 for it
get_evaluation_stats_unguarded(rows) ==
    LET total == Len(rows)
        shortlisted ==
            Cardinality({i \in 1..total : Lower(rows[i][7].s) = "shortlist"})
    IN  [total_evaluations |-> Num(100 * total),
         shortlisted |-> Num(100 * shortlisted),
         rejection_rate |-> Num(IF total > 0
                                THEN ((total - shortlisted) * 10000) \div total
                                ELSE 10000),
         avg_experience |-> Num(0),
         top_skills |-> extract_top_skills(rows),
         education_levels |-> extract_education_levels(rows)]

\* get_evaluation_stats from the rows of get_evaluations_by_period on;
\* rejection_rate in hundredths of a percent, avg_experience to a tenth
get_evaluation_stats_rows(rows) ==
    IF Len(rows) = 0 THEN EmptyStats
    ELSE LET total == Len(rows)
             shortlisted ==
                 Cardinality({i \in 1..total : Lower(rows[i][7].s) = "shortlist"})
             RECURSIVE Sum(_)
             Sum(n) == IF n = 0 THEN 0 ELSE rows[n][10].h + Sum(n - 1)
             mean == Sum(total) \div total
         IN  [total_evaluations |-> Num(100 * total),
              shortlisted |-> Num(100 * shortlisted),
              rejection_rate |-> Num(((total - shortlisted) * 10000) \div total),
              avg_experience |-> Num(((mean + 5) \div 10) * 10),
              top_skills |-> extract_top_skills(rows),
              education_levels |-> extract_education_levels(rows)]

\* ------------------------------------------------------------ the counts
\* SELECT COUNT(*) FROM evaluations
get_total_evaluations_count(es) == Cardinality(es)

\* SELECT COUNT(*) FROM evaluations WHERE LOWER(result) = 'shortlist'
get_shortlisted_count(es) ==
    Cardinality({e \in es : Lower(e.result.s) = "shortlist"})

\* SELECT COUNT(*) FROM evaluations WHERE LOWER(result) = 'reject'
get_rejected_count(es) ==
    Cardinality({e \in es : Lower(e.result.s) = "reject"})

\* SELECT COUNT(*) FROM evaluations WHERE DATE(evaluation_date) = CURRENT_DATE
get_today_evaluations_count(es, t) ==
    Cardinality({e \in es : DATE(e.evaluation_date) = DATE(t)})

\* ------------------------------------------------------ Database operations
NoOp == [name |-> "none", jid |-> 0, crit |-> None, result |-> <<>>,
         title |-> "", description |-> "", period |-> "",
         start_date |-> 0, end_date |-> 0]

\* the script thread is between handlers
Idle == pc = "idle" /\ fpc \in {"idle", "done", "failed", "listed"}

\* the thread enters an operation: the next thing it does is get a connection
Call(o) ==
    /\ pc = "idle"
    /\ op' = o
    /\ pc' = "getconn"
    /\ qn' = 1
    /\ job_id' = 0
    /\ res' = "none"
    /\ ret' = None
    /\ UNCHANGED <<dbVars, poolVars>>

\* the operation returns v, or raises v; of the operation, its name and the
\* id, period or dates it was given stay on record
Return(v) ==
    /\ pc' = "idle"
    /\ res' = IF IsRaised(v) THEN "error" ELSE "ok"
    /\ ret' = v
    /\ op' = [NoOp EXCEPT !.name = op.name, !.jid = op.jid,
                          !.period = op.period,
                          !.start_date = op.start_date,
                          !.end_date = op.end_date]

\* the operation raises e; get_evaluation_stats catches whatever its query
\* raises and returns the empty statistics
Raise(e) ==
    Return(IF op.name = "get_evaluation_stats" THEN Obj(EmptyStats)
           ELSE Raised(e))

\* save_evaluation builds its parameters first: a float() that raises ends
\* the call before execute_query is entered
save_evaluation_call(jid, r) ==
    IF ParamsRaise(save_evaluation_params(jid, Str("cv.pdf"), r))
    THEN /\ pc = "idle"
         /\ pc' = pc
         /\ res' = "error"
         /\ ret' = Raised("ValueError")
         /\ op' = [NoOp EXCEPT !.name = "save_evaluation", !.jid = jid]
         /\ UNCHANGED <<dbVars, poolVars, qn, job_id>>
    ELSE Call([NoOp EXCEPT !.name = "save_evaluation", !.jid = jid,
                           !.result = r])

\* the calls the pages make outside the evaluation handler
add_job_description(title, description, c) ==
    /\ Idle
    /\ Len(jobs) < MaxJobs
    /\ Len(criteria) < MaxCriteria
    /\ Call([NoOp EXCEPT !.name = "add_job_description", !.title = title,
                         !.description = description, !.crit = c])
    /\ UNCHANGED flowVars

delete_job(id) ==
    /\ Idle
    /\ Call([NoOp EXCEPT !.name = "delete_job", !.jid = id])
    /\ UNCHANGED flowVars

clear_evaluations ==
    /\ Idle
    /\ Call([NoOp EXCEPT !.name = "clear_evaluations"])
    /\ UNCHANGED flowVars

save_evaluation(jid, r) ==
    /\ Idle
    /\ evalSeq < MaxEvals
    /\ save_evaluation_call(jid, r)
    /\ UNCHANGED flowVars

add_evaluation_criteria(jid, c) ==
    /\ Idle
    /\ Call([NoOp EXCEPT !.name = "add_evaluation_criteria", !.jid = jid,
                         !.crit = c])
    /\ UNCHANGED flowVars

get_evaluation_details(id) ==
    /\ Idle
    /\ Call([NoOp EXCEPT !.name = "get_evaluation_details", !.jid = id])
    /\ UNCHANGED flowVars

get_all_jobs ==
    /\ Idle
    /\ Call([NoOp EXCEPT !.name = "get_all_jobs"])
    /\ UNCHANGED flowVars

get_evaluation_criteria(id) ==
    /\ Idle
    /\ Call([NoOp EXCEPT !.name = "get_evaluation_criteria", !.jid = id])
    /\ UNCHANGED flowVars

get_evaluations_by_period(period) ==
    /\ Idle
    /\ Call([NoOp EXCEPT !.name = "get_evaluations_by_period",
                         !.period = period])
    /\ UNCHANGED flowVars

get_evaluations_by_date_range(start_date, end_date) ==
    /\ Idle
    /\ Call([NoOp EXCEPT !.name = "get_evaluations_by_date_range",
                         !.start_date = start_date, !.end_date = end_date])
    /\ UNCHANGED flowVars

\* Analytics.get_evaluation_stats, which runs get_evaluations_by_period
get_evaluation_stats(period) ==
    /\ Idle
    /\ Call([NoOp EXCEPT !.name = "get_evaluation_stats", !.period = period])
    /\ UNCHANGED flowVars

\* mutant: the pool hands out one connection more than maxconn
PoolExhausted_late(u) == u > maxconn

\* SimpleConnectionPool(minconn=1, maxconn=10): getconn() has nothing to
\* hand out when maxconn connections are in use
PoolExhausted(u) == u = maxconn

\* mutant: the connection is put back on the normal return only
putconn_unless_raised(u, raised) == IF raised THEN u ELSE u - 1

\* get_connection's finally: putconn on the way out, raised or not
putconn(u, raised) == u - 1

\* get_connection: pool.getconn() raises PoolError at once when the pool is
\* exhausted; otherwise the caller holds one more
get_connection ==
    /\ pc = "getconn"
    /\ IF PoolExhausted(used)
       THEN /\ Raise("PoolError")
            /\ UNCHANGED <<dbVars, poolVars, qn, job_id>>
       ELSE /\ used' = used + 1
            /\ pc' = "exec"
            /\ UNCHANGED <<dbVars, busy, op, qn, job_id, res, ret>>
    /\ UNCHANGED flowVars

\* the statement of the current execute_query call is rejected by the server
\* whatever the server's health
Rejected ==
    CASE op.name = "save_evaluation" ->
            InsertEvaluationFails(jobs,
                save_evaluation_params(op.jid, Str("cv.pdf"), op.result))
      \* ON CONFLICT (job_id) names a column with no unique constraint
      [] op.name = "add_evaluation_criteria" -> TRUE
      [] OTHER -> FALSE

\* `if evaluation_criteria:` in add_job_description
HasCriteria(c) == c.t = "obj" /\ DOMAIN c.o # {}

\* the statement runs and conn.commit() makes its effect durable
Commit ==
    CASE op.name = "add_job_description" /\ qn = 1 ->
            /\ jobs' = InsertJob(jobs, op.title, op.description)
            /\ job_id' = Len(jobs) + 1
            /\ IF HasCriteria(op.crit)
               THEN /\ pc' = "getconn"
                    /\ qn' = 2
                    /\ UNCHANGED <<res, ret, op>>
               ELSE /\ Return(Num(100 * (Len(jobs) + 1)))
                    /\ UNCHANGED qn
            /\ UNCHANGED <<criteria, evals, evalSeq, written>>
      [] op.name = "add_job_description" /\ qn = 2 ->
            /\ criteria' = Append(criteria, JobCriteriaRow(job_id, op.crit.o))
            /\ Return(Num(100 * job_id))
            /\ UNCHANGED <<jobs, evals, evalSeq, written, qn, job_id>>
      [] op.name = "delete_job" ->
            /\ jobs' = delete_job_rows(jobs, op.jid)
            /\ Return(None)
            /\ UNCHANGED <<criteria, evals, evalSeq, written, qn, job_id>>
      [] op.name = "clear_evaluations" ->
            /\ evals' = clear_evaluations_rows(evals)
            /\ Return(None)
            /\ UNCHANGED <<jobs, criteria, evalSeq, written, qn, job_id>>
      [] op.name = "save_evaluation" ->
            /\ evalSeq' = evalSeq + 1
            /\ evals' = InsertEvaluation(evals, evalSeq + 1,
                   save_evaluation_params(op.jid, Str("cv.pdf"), op.result))
            /\ written' = [i \in DOMAIN written \cup {evalSeq + 1} |->
                             IF i = evalSeq + 1 THEN op.result ELSE written[i]]
            /\ Return(None)
            /\ UNCHANGED <<jobs, criteria, qn, job_id>>
      [] op.name = "get_evaluation_details" ->
            /\ Return(IF \E e \in evals : e.id = op.jid
                      THEN get_evaluation_details_row(
                               CHOOSE e \in evals : e.id = op.jid)
                      ELSE None)
            /\ UNCHANGED <<dbVars, qn, job_id>>
      [] op.name = "get_evaluation_criteria" ->
            /\ Return(get_evaluation_criteria_rows(criteria, op.jid))
            /\ UNCHANGED <<dbVars, qn, job_id>>
      [] op.name = "get_evaluations_by_period" ->
            /\ \E s \in OrderByDateDesc(
                      get_evaluations_by_period_rows(evals, jobs, op.period, now)) :
                  Return(List([i \in DOMAIN s |-> SelectRow(PeriodColumns, s[i], jobs)]))
            /\ UNCHANGED <<dbVars, qn, job_id>>
      [] op.name = "get_evaluations_by_date_range" ->
            /\ \E s \in OrderByDateDesc(
                      get_evaluations_by_date_range_rows(
                          evals, jobs, op.start_date, op.end_date)) :
                  Return(List([i \in DOMAIN s |-> SelectRow(RangeColumns, s[i], jobs)]))
            /\ UNCHANGED <<dbVars, qn, job_id>>
      [] op.name = "get_evaluation_stats" ->
            /\ \E s \in OrderByDateDesc(
                      get_evaluations_by_period_rows(evals, jobs, op.period, now)) :
                  Return(Obj(get_evaluation_stats_rows(
                      [i \in DOMAIN s |-> SelectRow(PeriodColumns, s[i], jobs)])))
            /\ UNCHANGED <<dbVars, qn, job_id>>

QueryOps == {"add_job_description", "delete_job", "clear_evaluations",
             "save_evaluation", "add_evaluation_criteria",
             "get_evaluation_details", "get_evaluation_criteria",
             "get_evaluations_by_period", "get_evaluations_by_date_range",
             "get_evaluation_stats"}

\* execute_query with a connection in hand: the statement commits, or it
\* fails (rejected, or the server is unreachable) and is rolled back and the
\* exception raised; either way the connection goes back to the pool
execute_query ==
    /\ pc = "exec"
    /\ op.name \in QueryOps
    /\ UNCHANGED <<busy, flowVars>>
    /\ \E unreachable \in BOOLEAN :
          IF unreachable \/ Rejected
          THEN /\ Raise("DatabaseError")
               /\ used' = putconn(used, TRUE)
               /\ UNCHANGED <<dbVars, qn, job_id>>
          ELSE /\ Commit
               /\ now' = now
               /\ used' = putconn(used, FALSE)

\* the body of get_all_jobs with a connection in hand: the SELECT returns
\* the rows, or raises; the connection goes back to the pool
get_all_jobs_fetch ==
    /\ pc = "exec"
    /\ op.name = "get_all_jobs"
    /\ \E unreachable \in BOOLEAN :
          /\ Return(IF unreachable THEN Raised("DatabaseError")
                    ELSE [t |-> "rows", rows |-> get_all_jobs_rows(jobs, criteria)])
          /\ used' = putconn(used, unreachable)
    /\ UNCHANGED <<dbVars, busy, qn, job_id, flowVars>>

\* operations of other threads on the same Database object, each holding
\* one connection from its getconn to its putconn
other_getconn ==
    /\ used < maxconn
    /\ used' = used + 1
    /\ busy' = busy + 1
    /\ UNCHANGED <<dbVars, thVars, flowVars>>

other_putconn ==
    /\ busy > 0
    /\ used' = putconn(used, FALSE)
    /\ busy' = busy - 1
    /\ UNCHANGED <<dbVars, thVars, flowVars>>

\* get_all_jobs of another session, on a connection of its own: its SELECT
\* reads what has been committed when it runs
other_get_all_jobs ==
    /\ used < maxconn
    /\ seen' = [t |-> "rows", rows |-> get_all_jobs_rows(jobs, criteria)]
    /\ UNCHANGED <<dbVars, poolVars, thVars, handlerVars, appVars, listVars,
                   reportVars, uploadVars, selected>>

\* ------------------------------------------------------------ the clock
\* the instants at which things happen: one year and a tick, and the two
\* ticks around each window's start as seen from then
Horizon == 365 * TicksPerDay + 1

Instants ==
    {0, 1, Horizon}
        \cup {Horizon - w * TicksPerDay - 1 : w \in {7, 30, 90}}
        \cup {Horizon - w * TicksPerDay : w \in {7, 30, 90}}

\* the days a custom range is made of
Days == {DATE(t) : t \in {Horizon - 30 * TicksPerDay, Horizon - 7 * TicksPerDay,
                          Horizon}}

Periods == {"week", "month", "quarter", "year", "all"}

\* time passes between two operations of the session
tick ==
    /\ pc = "idle"
    /\ \E t \in Instants : t > now /\ now' = t
    /\ UNCHANGED <<jobs, criteria, evals, evalSeq, written, poolVars, thVars,
                   flowVars>>

\* ------------------------------------- show_evaluation: "Evaluate Resume"
NoCalls == [anthropic |-> 0, identity |-> 0, experience |-> 0, evaluation |-> 0,
            saved |-> 0]

\* the rerun the button press starts: the job list is read again. The user
\* has handed some files to st.file_uploader, which holds a single
\* uploaded_file (no accept_multiple_files)
show_evaluation(files) ==
    /\ Idle
    /\ submitted' = files
    /\ UNCHANGED <<appVars, reportVars, seen, uploadVars, listVars>>
    /\ selected' = 0
    /\ evalSeq < EvalMaxEvals
    /\ Call([NoOp EXCEPT !.name = "get_all_jobs"])
    /\ fpc' = "jobs"
    /\ job' = None
    /\ sel_criteria' = None
    /\ candidate_info' = None
    /\ experience_analysis' = None
    /\ evaluation' = None
    /\ calls' = NoCalls
    /\ eval_reply' = None
    /\ experience_reply' = None
    /\ identity_failed' = FALSE

\* the handler stops: the exception reaches main()
Fail == fpc' = "failed"

\* the user picks an entry of the selectbox, which lists the jobs' titles and
\* yields the title of the entry picked; the resume text is extracted, and
\* the job is looked up again by that title: the first job of the list with it
extract_text ==
    /\ fpc = "jobs"
    /\ pc = "idle"
    /\ IF res = "error" \/ ret.rows = {}
       THEN Fail /\ UNCHANGED <<job, selected>>
       ELSE \E pick \in ret.rows, readable \in BOOLEAN :
               /\ selected' = pick.id
               /\ IF readable
                  THEN /\ fpc' = "criteria"
                       /\ job' = LET selected_job == pick.title
                                     same == {j \in ret.rows :
                                                 j.title = selected_job}
                                 IN  Obj(CHOOSE j \in same :
                                            \A k \in same : j.id <= k.id)
                  ELSE Fail /\ UNCHANGED job
    /\ UNCHANGED <<dbVars, poolVars, thVars, sel_criteria, candidate_info,
                   experience_analysis, evaluation, calls, eval_reply,
                   experience_reply, identity_failed,
                   submitted, appVars, reportVars, seen, uploadVars,
                   listVars>>

\* criteria = get_evaluation_criteria(job['id']) if job['has_criteria'] else None
fetch_criteria ==
    /\ fpc = "criteria"
    /\ IF job.o.has_criteria
       THEN /\ Call([NoOp EXCEPT !.name = "get_evaluation_criteria",
                                 !.jid = job.o.id])
            /\ fpc' = "criteria_wait"
       ELSE /\ fpc' = "identity"
            /\ UNCHANGED <<dbVars, poolVars, thVars>>
    /\ UNCHANGED <<job, sel_criteria, candidate_info, experience_analysis,
                   evaluation, calls, eval_reply,
                   experience_reply, identity_failed,
                   submitted, appVars, reportVars, pickVars, uploadVars,
                   listVars>>

criteria_fetched ==
    /\ fpc = "criteria_wait"
    /\ pc = "idle"
    /\ IF res = "error"
       THEN Fail /\ UNCHANGED sel_criteria
       ELSE fpc' = "identity" /\ sel_criteria' = ret
    /\ UNCHANGED <<dbVars, poolVars, thVars, job, candidate_info,
                   experience_analysis, evaluation, calls, eval_reply,
                   experience_reply, identity_failed,
                   submitted, appVars, reportVars, pickVars, uploadVars,
                   listVars>>

\* -------------------------------------------------------- evaluate_resume
\* _extract_candidate_info, first attempt: the Anthropic request; json.loads
\* of response.content decides whether the fallback is needed
extract_candidate_info_anthropic ==
    /\ fpc = "identity"
    /\ calls' = [calls EXCEPT !.anthropic = @ + 1]
    /\ \E reply \in {ApiError, AnthropicContent} :
          LET parsed == IF IsRaised(reply) THEN reply ELSE JsonLoads(reply)
          IN  IF IsRaised(parsed)
              THEN /\ fpc' = "identity_fallback"
                   /\ UNCHANGED <<candidate_info, identity_failed>>
              ELSE /\ fpc' = "experience"
                   /\ candidate_info' = Obj(InfoFromParsed(parsed))
                   /\ identity_failed' = FALSE
    /\ UNCHANGED <<dbVars, poolVars, thVars, job, sel_criteria,
                   experience_analysis, evaluation, eval_reply,
                   experience_reply, submitted, appVars, reportVars,
                   pickVars, uploadVars, listVars>>

\* second attempt: the OpenAI request; any exception from here on returns
\* the all-"Not provided" record
extract_candidate_info_openai ==
    /\ fpc = "identity_fallback"
    /\ calls' = [calls EXCEPT !.identity = @ + 1]
    /\ \E reply \in Replies({GoodInfo, PartialInfo, NumericInfo}) :
          LET parsed == IF IsRaised(reply) THEN reply ELSE JsonLoads(reply)
          IN  /\ candidate_info' = Obj(InfoFromParsed(parsed))
              /\ identity_failed' = IsRaised(parsed)
    /\ fpc' = "experience"
    /\ UNCHANGED <<dbVars, poolVars, thVars, job, sel_criteria,
                   experience_analysis, evaluation, eval_reply,
                   experience_reply, submitted, appVars, reportVars,
                   pickVars, uploadVars, listVars>>

\* min_years = evaluation_criteria.get('min_years_experience', 0) if
\* evaluation_criteria else 0
min_years(c) ==
    IF c.t = "obj" /\ DOMAIN c.o # {}
    THEN Get(c.o, "min_years_experience", Num(0)) ELSE Num(0)

analyze_experience_call ==
    /\ fpc = "experience"
    /\ calls' = [calls EXCEPT !.experience = @ + 1]
    /\ \E reply \in Replies({ExperienceReply}) :
          /\ experience_reply' = reply
          /\ experience_analysis' =
                Obj(analyze_experience(reply, min_years(sel_criteria)))
    /\ fpc' = "evaluate"
    /\ UNCHANGED <<dbVars, poolVars, thVars, job, sel_criteria, candidate_info,
                   evaluation, eval_reply, identity_failed, submitted,
                   appVars, reportVars, pickVars, uploadVars, listVars>>

\* mutant: a reply that does not parse is taken as an empty evaluation
evaluate_resume_reply_lenient(reply, ci, exp) ==
    LET parsed == IF IsRaised(reply) THEN reply ELSE JsonLoads(reply)
    IN  IF IsRaised(reply) THEN reply
        ELSE IF IsRaised(parsed) \/ parsed.t # "obj"
        THEN Obj(final_result(<<>>, ci, exp))
        ELSE Obj(final_result(parsed.o, ci, exp))

\* the evaluation request and what evaluate_resume makes of the reply: a
\* failed request or a reply json.loads rejects is re-raised, any JSON
\* object is merged and returned
evaluate_resume_reply(reply, ci, exp) ==
    LET parsed == IF IsRaised(reply) THEN reply ELSE JsonLoads(reply)
    IN  IF IsRaised(parsed) THEN parsed
        ELSE IF parsed.t # "obj" THEN Raised("TypeError")
        ELSE Obj(final_result(parsed.o, ci, exp))

evaluate_resume ==
    /\ fpc = "evaluate"
    /\ calls' = [calls EXCEPT !.evaluation = @ + 1]
    /\ \E reply \in Replies(JsonReplies) :
          /\ eval_reply' = reply
          /\ evaluation' = evaluate_resume_reply(reply, candidate_info.o,
                                                 experience_analysis.o)
          /\ fpc' = IF IsRaised(evaluation') THEN "failed" ELSE "returned"
    /\ UNCHANGED <<dbVars, poolVars, thVars, job, sel_criteria, candidate_info,
                   experience_analysis, experience_reply, identity_failed,
                   submitted, appVars, reportVars, pickVars, uploadVars,
                   listVars>>

\* back in the handler: save_evaluation(job_id=job['id'], ...)
save_result ==
    /\ fpc = "returned"
    /\ save_evaluation_call(job.o.id, evaluation.o)
    /\ fpc' = IF pc' = "idle" THEN "failed" ELSE "saving"
    /\ UNCHANGED <<job, sel_criteria, candidate_info, experience_analysis,
                   evaluation, calls, eval_reply,
                   experience_reply, identity_failed,
                   submitted, appVars, reportVars, pickVars, uploadVars,
                   listVars>>

\* mutant: the handler saves the result a second time
result_saved_again ==
    /\ fpc = "saving"
    /\ pc = "idle"
    /\ fpc' = IF res # "ok" THEN "failed"
              ELSE IF calls.saved = 0 THEN "returned" ELSE "done"
    /\ calls' = IF res = "ok" THEN [calls EXCEPT !.saved = @ + 1] ELSE calls
    /\ UNCHANGED <<dbVars, poolVars, thVars, job, sel_criteria, candidate_info,
                   experience_analysis, evaluation, eval_reply,
                   experience_reply, identity_failed,
                   submitted, appVars, reportVars, pickVars, uploadVars,
                   listVars>>

\* save_evaluation has returned or raised: the handler goes on to show the
\* result, or main's except reports the error
result_saved ==
    /\ fpc = "saving"
    /\ pc = "idle"
    /\ fpc' = IF res = "ok" THEN "done" ELSE "failed"
    /\ calls' = IF res = "ok" THEN [calls EXCEPT !.saved = @ + 1] ELSE calls
    /\ UNCHANGED <<dbVars, poolVars, thVars, job, sel_criteria, candidate_info,
                   experience_analysis, evaluation, eval_reply,
                   experience_reply, identity_failed,
                   submitted, appVars, reportVars, pickVars, uploadVars,
                   listVars>>

\* ------------------------------------------------------- specifications
\* after Database.__init__: create_tables has run on empty tables and has
\* returned its connection
Fresh ==
    /\ jobs = <<>>
    /\ criteria = <<>>
    /\ evals = {}
    /\ evalSeq = 0
    /\ written = <<>>
    /\ now = 0
    /\ used = 0
    /\ busy = 0
    /\ pc = "idle"
    /\ op = NoOp
    /\ qn = 1
    /\ job_id = 0
    /\ res = "none"
    /\ ret = None
    /\ fpc = "idle"
    /\ job = None
    /\ sel_criteria = None
    /\ candidate_info = None
    /\ experience_analysis = None
    /\ evaluation = None
    /\ calls = NoCalls
    /\ eval_reply = None
    /\ experience_reply = None
    /\ submitted = 0
    /\ identity_failed = FALSE
    /\ evaluations = <<>>
    /\ cards = <<>>
    /\ report = NoReport
    /\ tmp = {}
    /\ second = 0
    /\ up = [s \in Sessions |-> NoUpload]
    /\ selected = 0
    /\ seen = None

\* a session of src/src/main.py whose components are set up
Init ==
    /\ Fresh
    /\ entry = "src/src/main.py"
    /\ components = "ready"
    /\ rendered = "none"

\* the session's Database calls, one at a time
Next ==
    \/ \E title \in Titles, d \in Descriptions, c \in CriteriaInputs :
          add_job_description(title, d, c)
    \/ \E id \in 1..MaxJobs : delete_job(id)
    \/ clear_evaluations
    \/ \E jid \in 1..(MaxJobs + 1), r \in ResultInputs : save_evaluation(jid, r)
    \/ \E jid \in 1..MaxJobs, c \in CriteriaInputs \ {None} :
          add_evaluation_criteria(jid, c)
    \/ \E id \in 1..MaxEvals : get_evaluation_details(id)
    \/ get_all_jobs
    \/ get_connection
    \/ execute_query
    \/ get_all_jobs_fetch

Spec == Init /\ [][Next]_vars

\* the same calls on a Database object that other threads use too, with the
\* tables kept to PoolMaxJobs jobs and PoolMaxEvals evaluations
PoolNext ==
    \/ /\ Next
       /\ Len(jobs') <= PoolMaxJobs
       /\ evalSeq' <= PoolMaxEvals
    \/ other_getconn
    \/ other_putconn

PoolSpec == Init /\ [][PoolNext]_vars

\* the evaluations list and the analytics page: evaluations are saved as
\* time passes and are read back by period, by date range and as statistics
QueryNext ==
    \/ /\ \E title \in Titles, d \in Descriptions :
             add_job_description(title, d, None)
       /\ Len(jobs) < QueryMaxJobs
    \/ /\ \E r \in ResultInputs : save_evaluation(1, r)
       /\ evalSeq < QueryMaxEvals
    \/ \E period \in Periods : get_evaluations_by_period(period)
    \/ \E a, b \in Days : get_evaluations_by_date_range(a, b)
    \/ \E period \in Periods : get_evaluation_stats(period)
    \/ get_connection
    \/ execute_query
    \/ tick

QuerySpec == Init /\ [][QueryNext]_vars

\* criteria are attached to jobs and changed while the server stays
\* reachable: a statement fails only if the server rejects it
CriteriaNext ==
    \/ \E title \in Titles, d \in Descriptions, c \in CriteriaInputs :
          add_job_description(title, d, c)
    \/ \E jid \in 1..MaxJobs, c \in {Obj(FormCriteria), Obj(NewCriteria)} :
          add_evaluation_criteria(jid, c)
    \/ \E id \in 1..MaxJobs : get_evaluation_criteria(id)
    \/ get_connection
    \/ execute_query /\ (res' = "error" => Rejected)

CriteriaSpec == Init /\ [][CriteriaNext]_vars

\* jobs are added while another session reads the job list
ConcurrentNext ==
    \/ \E title \in Titles, d \in Descriptions, c \in CriteriaInputs :
          add_job_description(title, d, c)
    \/ get_connection
    \/ execute_query
    \/ other_get_all_jobs

ConcurrentSpec == Init /\ [][ConcurrentNext]_vars

\* ------------------------------------------------- the Evaluations tab
\* the tab is drawn for a quick filter: the rows come from
\* get_evaluations_by_period
evaluations_tab(period) ==
    /\ Idle
    /\ Call([NoOp EXCEPT !.name = "get_evaluations_by_period",
                         !.period = period])
    /\ fpc' = "list"
    /\ evaluations' = <<>>
    /\ cards' = <<>>
    /\ UNCHANGED <<job, sel_criteria, candidate_info, experience_analysis,
                   evaluation, calls, eval_reply, experience_reply,
                   identity_failed, submitted, appVars, reportVars, pickVars,
                   uploadVars>>

\* the tab is drawn for "Custom Range": start_date > end_date ends the run
\* with a notice, otherwise the rows come from get_evaluations_by_date_range
evaluations_tab_range(start_date, end_date) ==
    /\ Idle
    /\ IF start_date > end_date
       THEN /\ fpc' = "listed"
            /\ UNCHANGED <<dbVars, poolVars, thVars>>
       ELSE /\ Call([NoOp EXCEPT !.name = "get_evaluations_by_date_range",
                                 !.start_date = start_date,
                                 !.end_date = end_date])
            /\ fpc' = "list"
    /\ evaluations' = <<>>
    /\ cards' = <<>>
    /\ UNCHANGED <<job, sel_criteria, candidate_info, experience_analysis,
                   evaluation, calls, eval_reply, experience_reply,
                   identity_failed, submitted, appVars, reportVars, pickVars,
                   uploadVars>>

\* the query returned: no rows is a notice and the end of the run; an
\* exception of the query reaches main()
evaluations_fetched ==
    /\ fpc = "list"
    /\ pc = "idle"
    /\ IF res = "error" THEN Fail /\ UNCHANGED evaluations
       ELSE IF ret.l = <<>> THEN fpc' = "listed" /\ UNCHANGED evaluations
       ELSE fpc' = "row" /\ evaluations' = ret.l
    /\ UNCHANGED <<dbVars, poolVars, thVars, job, sel_criteria, candidate_info,
                   experience_analysis, evaluation, calls, eval_reply,
                   experience_reply, identity_failed, submitted, appVars,
                   reportVars, pickVars, uploadVars,
                   cards>>

\* eval_data's 'result' is eval_record[6], upper-cased for the card's title:
\* a value that is no str raises AttributeError
RowRaises(eval_record) == eval_record[7].t # "str"

\* one pass of "for eval_record in evaluations": the card's title is built
\* from the tuple and get_evaluation_details is called for its id; an
\* exception is logged and the loop goes on
display_row ==
    /\ fpc = "row"
    /\ IF evaluations = <<>>
       THEN /\ fpc' = "listed"
            /\ UNCHANGED <<dbVars, poolVars, thVars, listVars>>
       ELSE IF RowRaises(Head(evaluations))
       THEN /\ cards' = Append(cards, [id |-> Head(evaluations)[1],
                                       shown |-> "error",
                                       logged |-> "AttributeError"])
            /\ evaluations' = Tail(evaluations)
            /\ fpc' = "row"
            /\ UNCHANGED <<dbVars, poolVars, thVars>>
       ELSE /\ Call([NoOp EXCEPT !.name = "get_evaluation_details",
                                 !.jid = Head(evaluations)[1]])
            /\ fpc' = "details"
            /\ UNCHANGED listVars
    /\ UNCHANGED <<job, sel_criteria, candidate_info, experience_analysis,
                   evaluation, calls, eval_reply, experience_reply,
                   identity_failed, submitted, appVars, reportVars, pickVars,
                   uploadVars>>

\* get_evaluation_details returned or raised: the details are drawn into
\* the card, or the row's except logs the exception and continues
details_fetched ==
    /\ fpc = "details"
    /\ pc = "idle"
    /\ cards' = Append(cards, [id |-> Head(evaluations)[1],
                               shown |-> IF res = "error" THEN "error"
                                         ELSE "card",
                               logged |-> IF res = "error" THEN ret.e
                                          ELSE ""])
    /\ evaluations' = Tail(evaluations)
    /\ fpc' = "row"
    /\ UNCHANGED <<dbVars, poolVars, thVars, job, sel_criteria, candidate_info,
                   experience_analysis, evaluation, calls, eval_reply,
                   experience_reply, identity_failed, submitted, appVars,
                   reportVars, pickVars, uploadVars>>

\* evaluations are saved and the Evaluations tab is drawn
ListNext ==
    \/ /\ \E title \in Titles, d \in Descriptions :
             add_job_description(title, d, None)
       /\ Len(jobs) < QueryMaxJobs
    \/ /\ \E r \in ResultInputs : save_evaluation(1, r)
       /\ evalSeq < QueryMaxEvals
    \/ \E period \in {"week", "month", "quarter"} : evaluations_tab(period)
    \/ \E a, b \in Days : evaluations_tab_range(a, b)
    \/ evaluations_fetched
    \/ display_row
    \/ details_fetched
    \/ get_connection
    \/ execute_query
    \/ tick

ListSpec == Init /\ [][ListNext]_vars

\* ------------------------------------------------------------ the reports
\* an evaluation as evaluate_resume returns it, shortlisted
FullEvaluation ==
    [decision |-> Str("SHORTLIST"),
     justification |-> Str("fits"),
     match_score |-> Num(85),
     key_matches |-> Obj([skills |-> List(<<"python">>)]),
     missing_requirements |-> List(<<>>),
     candidate_info |-> Obj(GoodInfo),
     years_of_experience |-> Obj([total |-> Num(550), relevant |-> Num(300),
                                  required |-> Num(300),
                                  meets_requirement |-> Bool(TRUE)])]

\* the fields a report reads from an evaluation, and from its candidate_info
ExpectedFields == {"candidate_info", "decision", "justification",
                   "years_of_experience", "key_matches"}
ContactFields == {"name", "email", "phone", "location", "linkedin"}

\* d without the keys ks
Lacking(d, ks) == [k \in DOMAIN d \ ks |-> d[k]]

\* evaluations handed to the reports: shortlisted or rejected, lacking any
\* of the expected fields, or one key of candidate_info
ReportInputs ==
    LET whole == {FullEvaluation,
                  [FullEvaluation EXCEPT !.decision = Str("REJECT")]}
    IN  {Lacking(e, ks) : e \in whole, ks \in SUBSET ExpectedFields}
        \cup {[e EXCEPT !.candidate_info = Obj(Lacking(GoodInfo, {k}))] :
                 e \in whole, k \in ContactFields}

\* str.upper() of the decisions
Upper(x) ==
    CASE x = "shortlist" -> "SHORTLIST"
      [] x = "reject" -> "REJECT"
      [] OTHER -> x

\* generate_evaluation_report: what the document shows, every field read
\* with .get and a default
generate_evaluation_report(evaluation_data, resume_name) ==
    LET info == Get(evaluation_data, "candidate_info", Obj(<<>>)).o
        exp_data == Get(evaluation_data, "years_of_experience", Obj(<<>>)).o
        score == Float(Get(evaluation_data, "match_score", Num(0)))
        key_matches == Get(evaluation_data, "key_matches", Obj(<<>>))
    IN  IF IsRaised(score) THEN score
        ELSE Obj([resume |-> resume_name,
                  name |-> Get(info, "name", Str("Not provided")),
                  email |-> Get(info, "email", Str("Not provided")),
                  phone |-> Get(info, "phone", Str("Not provided")),
                  location |-> Get(info, "location", Str("Not provided")),
                  linkedin |-> Get(info, "linkedin", Str("Not provided")),
                  decision |-> Get(evaluation_data, "decision",
                                   Str("NOT PROVIDED")),
                  match_score |-> score,
                  justification |-> Get(evaluation_data, "justification",
                                        Str("No justification provided")),
                  total |-> Get(exp_data, "total", Num(0)),
                  relevant |-> Get(exp_data, "relevant", Num(0)),
                  required |-> Get(exp_data, "required", Num(0)),
                  meets_requirement |->
                      Truthy(Get(exp_data, "meets_requirement", Bool(FALSE))),
                  skills |-> IF key_matches.t = "obj"
                                /\ "skills" \in DOMAIN key_matches.o
                             THEN key_matches.o.skills ELSE List(<<>>),
                  missing_requirements |->
                      Get(evaluation_data, "missing_requirements", List(<<>>))])

\* whether generate_summary_report gives eval_data a section
Shortlisted(eval_data) ==
    Upper(Get(eval_data, "decision", Str("")).s) = "SHORTLIST"

\* the section's heading reads eval_data['candidate_info']['name']
HeadingRaises(eval_data) ==
    \/ "candidate_info" \notin DOMAIN eval_data
    \/ "name" \notin DOMAIN eval_data.candidate_info.o

\* the section generate_summary_report writes for a shortlisted evaluation
summary_section(eval_data) ==
    LET info == Get(eval_data, "candidate_info", Obj(<<>>)).o
        exp_data == Get(eval_data, "years_of_experience", Obj(<<>>)).o
        key_matches == Get(eval_data, "key_matches", Obj(<<>>))
    IN  [name |-> eval_data.candidate_info.o.name,
         email |-> Get(info, "email", Str("Not provided")),
         phone |-> Get(info, "phone", Str("Not provided")),
         location |-> Get(info, "location", Str("Not provided")),
         linkedin |-> Get(info, "linkedin", Str("Not provided")),
         match_score |-> Float(Get(eval_data, "match_score", Num(0))),
         total |-> Get(exp_data, "total", Num(0)),
         relevant |-> Get(exp_data, "relevant", Num(0)),
         required |-> Get(exp_data, "required", Num(0)),
         skills |-> IF key_matches.t = "obj"
                       /\ "skills" \in DOMAIN key_matches.o
                    THEN key_matches.o.skills ELSE List(<<>>),
         justification |-> Get(eval_data, "justification",
                               Str("No justification provided"))]

\* generate_summary_report: a section per shortlisted evaluation, or the
\* KeyError of the first heading that cannot be read
generate_summary_report(evals_in) ==
    LET listed == SelectSeq(evals_in, Shortlisted)
    IN  IF \E i \in DOMAIN listed : HeadingRaises(listed[i])
        THEN Raised("KeyError")
        ELSE List([i \in DOMAIN listed |-> summary_section(listed[i])])

\* a report is made for one evaluation
evaluation_report ==
    /\ Idle
    /\ \E e \in ReportInputs :
          report' = [name |-> "generate_evaluation_report",
                     evaluations |-> <<e>>,
                     document |-> generate_evaluation_report(e, Str("cv.pdf"))]
    /\ UNCHANGED <<dbVars, poolVars, thVars, handlerVars, appVars, listVars,
                   uploadVars, pickVars>>

\* a summary is made of a complete shortlisted evaluation and one more
summary_report ==
    /\ Idle
    /\ \E e \in ReportInputs :
          report' = [name |-> "generate_summary_report",
                     evaluations |-> <<FullEvaluation, e>>,
                     document |-> generate_summary_report(<<FullEvaluation, e>>)]
    /\ UNCHANGED <<dbVars, poolVars, thVars, handlerVars, appVars, listVars,
                   uploadVars, pickVars>>

ReportNext ==
    \/ evaluation_report
    \/ summary_report

ReportSpec == Init /\ [][ReportNext]_vars

\* ------------------------------------------------------------ the uploads
PdfType == "application/pdf"
DocxType ==
    "application/vnd.openxmlformats-officedocument.wordprocessingml.document"
TextType == "text/plain"
SupportedTypes == {PdfType, DocxType, TextType}

\* the files session s can upload: declared type, extension of the name,
\* and content (what the bytes are, and the text in them, s's own)
Uploads(s) ==
    {[type |-> f[1], ext |-> f[2], content |-> [kind |-> f[3], text |-> s]] :
        f \in {<<PdfType, ".pdf", "pdf">>, <<PdfType, ".pdf", "other">>,
                <<DocxType, ".docx", "docx">>, <<DocxType, ".docx", "other">>,
                <<TextType, ".txt", "text">>,
                <<"image/png", ".png", "other">>,
                <<"application/msword", ".doc", "other">>}}

\* mutant: a type that is not named is read as plain text
Reader_lenient(type) ==
    CASE type = PdfType -> "parse_pdf"
      [] type = DocxType -> "parse_docx"
      [] OTHER -> "decode"

\* the if/elif chain on uploaded_file.type
Reader(type) ==
    CASE type = PdfType -> "parse_pdf"
      [] type = DocxType -> "parse_docx"
      [] type = TextType -> "decode"
      [] OTHER -> "unsupported"

\* whether parse_pdf / parse_docx can read the content
Parses(reader, content) ==
    \/ reader = "parse_pdf" /\ content.kind = "pdf"
    \/ reader = "parse_docx" /\ content.kind = "docx"

\* jd_<%Y%m%d_%H%M%S><extension> in the temporary directory
TempPath(t, uploaded_file) == [second |-> t, ext |-> uploaded_file.ext]

\* what the function returns, and the exception its except clause raises
Text(n) == [t |-> "text", of |-> n]
ExtractFailed == Raised("Exception")

\* the file is written at path (open "wb" replaces what was there)
WriteFile(fs, path, content) ==
    {f \in fs : f.path # path} \cup {[path |-> path, content |-> content]}

\* extract_text_from_upload is entered: an unsupported type raises, plain
\* text is decoded and returned, a PDF or DOCX goes on to be saved
extract_text_from_upload(s) ==
    /\ up[s].pc = "idle"
    /\ \E f \in Uploads(s) :
          LET r == Reader(f.type)
              call == [NoUpload EXCEPT !.uploaded_file = f, !.reader = r]
          IN  up' = [up EXCEPT ![s] =
                  CASE r = "unsupported" ->
                          [call EXCEPT !.pc = "done", !.result = ExtractFailed]
                    [] r = "decode" ->
                          [call EXCEPT !.pc = "done",
                                       !.result = Text(f.content.text)]
                    [] OTHER -> [call EXCEPT !.pc = "save"]]
    /\ UNCHANGED <<dbVars, poolVars, thVars, handlerVars, appVars, listVars,
                   reportVars, pickVars, tmp, second>>

\* save_uploaded_file: the upload is written under a name made of the
\* current second and the extension
save_uploaded_file(s) ==
    /\ up[s].pc = "save"
    /\ LET path == TempPath(second, up[s].uploaded_file)
       IN  /\ tmp' = WriteFile(tmp, path, up[s].uploaded_file.content)
           /\ up' = [up EXCEPT ![s].pc = "parse", ![s].file_path = path]
    /\ UNCHANGED <<dbVars, poolVars, thVars, handlerVars, appVars, listVars,
                   reportVars, pickVars, second>>

\* parse_pdf / parse_docx read the file at file_path: a file that is gone or
\* cannot be parsed raises, and the call ends in its except clause
parse_file(s) ==
    /\ up[s].pc = "parse"
    /\ LET here == {f \in tmp : f.path = up[s].file_path}
       IN  IF \E f \in here : Parses(up[s].reader, f.content)
           THEN \E f \in here :
                   up' = [up EXCEPT ![s].pc = "remove",
                                    ![s].text = Text(f.content.text)]
           ELSE up' = [up EXCEPT ![s].pc = "done", ![s].result = ExtractFailed]
    /\ UNCHANGED <<dbVars, poolVars, thVars, handlerVars, appVars, listVars,
                   reportVars, pickVars, tmp, second>>

\* os.remove(file_path) and return text: a file that is gone raises
remove_file(s) ==
    /\ up[s].pc = "remove"
    /\ IF \E f \in tmp : f.path = up[s].file_path
       THEN /\ tmp' = {f \in tmp : f.path # up[s].file_path}
            /\ up' = [up EXCEPT ![s].pc = "done", ![s].result = up[s].text]
       ELSE /\ tmp' = tmp
            /\ up' = [up EXCEPT ![s].pc = "done", ![s].result = ExtractFailed]
    /\ UNCHANGED <<dbVars, poolVars, thVars, handlerVars, appVars, listVars,
                   reportVars, pickVars, second>>

\* the caller has the text or the exception; the session can upload again
upload_done(s) ==
    /\ up[s].pc = "done"
    /\ up' = [up EXCEPT ![s] = NoUpload]
    /\ UNCHANGED <<dbVars, poolVars, thVars, handlerVars, appVars, listVars,
                   reportVars, pickVars, tmp, second>>

\* the clock reaches the next second
next_second ==
    /\ second < MaxSecond
    /\ second' = second + 1
    /\ UNCHANGED <<dbVars, poolVars, thVars, handlerVars, appVars, listVars,
                   reportVars, pickVars, tmp, up>>

UploadNext ==
    \/ \E s \in Sessions : extract_text_from_upload(s)
    \/ \E s \in Sessions : save_uploaded_file(s)
    \/ \E s \in Sessions : parse_file(s)
    \/ \E s \in Sessions : remove_file(s)
    \/ \E s \in Sessions : upload_done(s)
    \/ next_second

UploadSpec == Init /\ [][UploadNext]_vars

\* ------------------------------------------------------------ the script
Scripts == {"src/src/main.py", "src/main.py"}
Pages == {"home", "jobs", "evaluation", "analytics"}

\* initialize_components: the components, or None when a constructor
\* raises. src/main.py builds Database(require_db=False), a keyword that
\* Database.__init__(self) does not take: its set-up raises every time
initialize_components(script, reachable) ==
    IF script = "src/main.py" THEN "None"
    ELSE IF reachable THEN "ready" ELSE "None"

\* one run of src/src/main.py: components that are None are set up again;
\* if they still are None the run shows the notice and returns, otherwise it
\* calls the handler of the page
main ==
    /\ entry = "src/src/main.py"
    /\ Idle
    /\ \E reachable \in BOOLEAN, page \in Pages :
          /\ components' = IF components = "ready" THEN components
                            ELSE initialize_components(entry, reachable)
          /\ rendered' = IF components' = "None" THEN "blocked" ELSE page
    /\ UNCHANGED <<dbVars, poolVars, thVars, handlerVars, listVars,
                   reportVars, pickVars,
                   uploadVars, entry>>

\* one run of src/main.py: the components are set up when the key is not
\* in st.session_state, and only then is their value looked at; otherwise
\* the handler of the selected page is called
app_main ==
    /\ entry = "src/main.py"
    /\ Idle
    /\ \E reachable \in BOOLEAN, page \in Pages :
          IF components = "unset"
          THEN /\ components' = initialize_components(entry, reachable)
               /\ rendered' = IF components' = "None" THEN "blocked" ELSE page
          ELSE /\ components' = components
               /\ rendered' = page
    /\ UNCHANGED <<dbVars, poolVars, thVars, handlerVars, listVars,
                   reportVars, pickVars,
                   uploadVars, entry>>

\* a session from its first run on: the pages' Database calls are made by
\* the handler the last run called
SessionInit ==
    /\ Fresh
    /\ entry \in Scripts
    /\ components = "unset"
    /\ rendered = "none"

SessionNext ==
    \/ main
    \/ app_main
    \/ /\ rendered = "jobs" /\ components = "ready"
       /\ Len(jobs) < QueryMaxJobs
       /\ \E title \in Titles, d \in Descriptions :
             add_job_description(title, d, Obj(FormCriteria))
    \/ /\ rendered = "jobs" /\ components = "ready"
       /\ \E id \in 1..QueryMaxJobs : delete_job(id)
    \/ /\ rendered \in {"jobs", "evaluation"} /\ components = "ready"
       /\ get_all_jobs
    \/ /\ rendered = "analytics" /\ components = "ready"
       /\ \E period \in {"week", "month", "year"} : get_evaluation_stats(period)
    \/ get_connection
    \/ execute_query
    \/ get_all_jobs_fetch

SessionSpec == SessionInit /\ [][SessionNext]_vars

\* one job and the "Evaluate Resume" handler, run on up to MaxBatch files
BatchNext ==
    \/ /\ \E title \in Titles, d \in Descriptions, c \in CriteriaInputs :
             add_job_description(title, d, c)
       /\ Len(jobs) < QueryMaxJobs
    \/ get_connection
    \/ execute_query
    \/ get_all_jobs_fetch
    \/ \E files \in 1..MaxBatch : show_evaluation(files)
    \/ extract_text
    \/ fetch_criteria
    \/ criteria_fetched
    \/ extract_candidate_info_anthropic
    \/ extract_candidate_info_openai
    \/ analyze_experience_call
    \/ evaluate_resume
    \/ save_result
    \/ result_saved

BatchSpec == Init /\ [][BatchNext]_vars

\* the evaluation page: jobs are created and deleted on the jobs page,
\* resumes are evaluated against them and the results saved
EvalNext ==
    \/ \E title \in Titles, d \in Descriptions, c \in CriteriaInputs :
          add_job_description(title, d, c)
    \/ \E id \in 1..MaxJobs : delete_job(id)
    \/ \E id \in 1..MaxJobs : get_evaluation_criteria(id)
    \/ get_connection
    \/ execute_query
    \/ get_all_jobs_fetch
    \/ show_evaluation(1)
    \/ extract_text
    \/ fetch_criteria
    \/ criteria_fetched
    \/ extract_candidate_info_anthropic
    \/ extract_candidate_info_openai
    \/ analyze_experience_call
    \/ evaluate_resume
    \/ save_result
    \/ result_saved

EvalSpec == Init /\ [][EvalNext]_vars

\* ------------------------------------------------------------------ claims
DetailsReturned ==
    /\ pc = "idle"
    /\ op.name = "get_evaluation_details"
    /\ \E e \in evals : e.id = op.jid

\* C1 (as claimed): add_job_description is all-or-nothing: when the call has
\* raised, the job row it inserted (job_id) is not in job_descriptions.
C1_AllOrNothing ==
    (pc = "idle" /\ op.name = "add_job_description" /\ res = "error")
        => job_id \notin DOMAIN jobs

\* C2: an operation holds one pooled connection exactly while it runs a
\* statement and none otherwise: with nothing in progress in this thread, the
\* only connections out are those of the other threads' running operations.
C2_ConnectionsReturned ==
    /\ used = busy + (IF pc = "exec" THEN 1 ELSE 0)
    /\ (pc = "idle" /\ busy = 0) => used = 0

C2_Witness ==
    /\ pc = "idle"
    /\ ret = Raised("DatabaseError")
    /\ op.name = "save_evaluation"
    /\ used = 0

\* C3: with all maxconn connections checked out, an operation that asks for
\* one raises PoolError in that very step: it gets no connection, no more than
\* maxconn are ever out, and no table changes.
C3_ExhaustedFailsAtOnce ==
    [][/\ used' <= maxconn
       /\ (pc = "getconn" /\ used = maxconn /\ thVars' # thVars)
            => /\ pc' = "idle"
               /\ res' = "error"
               /\ ret' = Raised("PoolError")
               /\ used' = used
               /\ dbVars' = dbVars]_vars

C3_Witness ==
    /\ pc = "idle"
    /\ ret = Raised("PoolError")
    /\ busy = maxconn
    /\ qn = 1

DeleteOfInactive ==
    /\ pc = "exec"
    /\ op.name = "delete_job"
    /\ op.jid \in DOMAIN jobs
    /\ ~jobs[op.jid].active

\* C4: delete_job on an inactive job changes no row and leaves the job
\* inactive, and deleting any job twice gives the table one delete gives.
C4_DeleteIdempotent ==
    /\ [](\A j \in DOMAIN jobs :
            delete_job_rows(delete_job_rows(jobs, j), j) = delete_job_rows(jobs, j))
    /\ [][(DeleteOfInactive /\ pc' = "idle")
            => /\ dbVars' = dbVars
               /\ ~jobs'[op.jid].active
               /\ (res' = "error" => ret' = Raised("DatabaseError"))]_vars

C4_Witness ==
    /\ DeleteOfInactive
    /\ used = 1
    /\ \E j \in DOMAIN jobs : j # op.jid /\ jobs[j].active

C6_EvaluationsImmutable ==
    [][\A e \in evals :
          e \in evals' \/ (pc = "exec" /\ op.name = "clear_evaluations")]_vars

C6_Witness ==
    /\ Cardinality(evals) = 2
    /\ pc = "idle"
    /\ op.name = "delete_job"
    /\ res = "ok"
    /\ \A e \in evals : e.job_id = op.jid

\* C7 (as claimed): get_evaluation_details of a stored record returns the
\* decision, match_score and years-of-experience block that were written,
\* and evaluation_data equal to the stored result.
C7_RoundTrip ==
    DetailsReturned =>
        LET w == written[op.jid]
            y == Get(w, "years_of_experience", Obj(<<>>)).o
        IN  \/ ret = Raised("DatabaseError")
            \/ /\ res = "ok"
               /\ ret.o.result = Get(w, "decision", None)
               /\ ret.o.match_score = Get(w, "match_score", None)
               /\ ret.o.years_experience_total = Get(y, "total", None)
               /\ ret.o.years_experience_relevant = Get(y, "relevant", None)
               /\ ret.o.years_experience_required = Get(y, "required", None)
               /\ ret.o.meets_experience_requirement = Get(y, "meets_requirement", None)
               /\ ret.o.experience_analysis = Get(y, "details", None)
               /\ ret.o.evaluation_data = Obj(w)

\* C8 (as claimed): a reply without the decision key makes evaluate_resume
\* raise, and no record is stored for it.
C8_DecisionRequired ==
    /\ (eval_reply.t = "text" /\ "decision" \notin DOMAIN eval_reply.json.o)
          => (fpc = "failed" /\ IsRaised(evaluation))
    /\ \A i \in DOMAIN written : "decision" \in DOMAIN written[i]

PublicInfoKeys == {"name", "email", "phone", "location", "linkedin"}

AllNotProvided(info) ==
    \A k \in PublicInfoKeys : Get(info, k, None) = Str("Not provided")

\* C9: when every identity-extraction attempt has failed, evaluate_resume
\* goes on to the experience analysis and the evaluation request, and what
\* it returns carries a candidate_info of "Not provided" fields.
C9_IdentityNonFatal ==
    /\ [](identity_failed =>
            /\ fpc # "identity" /\ fpc # "identity_fallback"
            /\ AllNotProvided(candidate_info.o)
            /\ (fpc \in {"evaluate", "returned", "saving", "done"}
                  => calls.experience = 1)
            /\ (fpc \in {"returned", "saving", "done"}
                  => /\ calls.evaluation = 1
                     /\ AllNotProvided(evaluation.o["candidate_info"].o)
                     /\ {"years_of_experience", "evaluation_date"}
                            \subseteq DOMAIN evaluation.o))
    /\ [][fpc = "identity_fallback" => fpc' = "experience"]_vars

C9_Witness ==
    /\ identity_failed
    /\ fpc = "done"
    /\ \E e \in evals : e.candidate_name = Str("Not provided")

\* C10: a reply to the evaluation request that is no JSON makes
\* evaluate_resume raise; the request was sent once and no result exists.
C10_ParseErrorRaises ==
    /\ [](/\ calls.evaluation <= 1
          /\ eval_reply = NotJson
                => /\ fpc = "failed"
                   /\ evaluation = Raised("JSONDecodeError")
                   /\ calls.evaluation = 1)
    /\ [][eval_reply = NotJson => (evals' = evals /\ written' = written)]_vars

C10_Witness ==
    /\ eval_reply = NotJson
    /\ fpc = "failed"
    /\ calls = [anthropic |-> 1, identity |-> 1, experience |-> 1,
                evaluation |-> 1, saved |-> 0]

\* C11 (as claimed): a transport failure of the experience-analysis request
\* or of the evaluation request makes evaluate_resume raise: it returns no
\* result.
C11_TransportFailurePropagates ==
    (experience_reply = ApiError \/ eval_reply = ApiError)
        => (fpc \in {"evaluate", "failed"} /\ ~(evaluation.t = "obj"))

StatsReturns ==
    /\ op.name = "get_evaluation_stats"
    /\ pc # "idle"
    /\ pc' = "idle"

\* C12: get_evaluation_stats never raises; when no evaluation falls in the
\* period it returns total_evaluations, shortlisted and rejection_rate of 0;
\* in every case 0 <= shortlisted <= total_evaluations <= the rows of the
\* period and 0 <= rejection_rate <= 100 percent.
C12_StatsBounds ==
    [][StatsReturns =>
         LET n == Cardinality(
                      get_evaluations_by_period_rows(evals, jobs, op.period, now))
             st == ret'.o
         IN  /\ res' = "ok"
             /\ ret'.t = "obj"
             /\ st.total_evaluations.h \in {0, 100 * n}
             /\ 0 <= st.shortlisted.h
             /\ st.shortlisted.h <= st.total_evaluations.h
             /\ 0 <= st.rejection_rate.h
             /\ st.rejection_rate.h <= 10000
             /\ (n = 0 => /\ st.total_evaluations = Num(0)
                          /\ st.shortlisted = Num(0)
                          /\ st.rejection_rate = Num(0))]_vars

C12_Witness ==
    /\ pc = "idle"
    /\ op.name = "get_evaluation_stats"
    /\ op.period = "week"
    /\ Cardinality(evals) = 2
    /\ ret.o.total_evaluations = Num(100)
    /\ ret.o.shortlisted = Num(0)
    /\ ret.o.rejection_rate = Num(10000)

RowsReturned(name) ==
    /\ op.name = name
    /\ pc = "exec"
    /\ pc' = "idle"
    /\ res' = "ok"

\* the rows of a returned list are distinct and come latest first
\* (evaluation_date is the 14th column of both SELECT lists)
LatestFirst(l) ==
    \A i, j \in 1..Len(l) :
        i < j => (l[i][1] # l[j][1] /\ l[i][14] >= l[j][14])

\* C13: get_evaluations_by_date_range(A, B) returns the stored evaluations
\* dated from the start of day A to the end of day B, each once and no
\* other, the most recent first.
C13_DateRange ==
    [][RowsReturned("get_evaluations_by_date_range") =>
         /\ {ret'.l[i][1] : i \in 1..Len(ret'.l)}
               = {e.id : e \in {x \in evals :
                     /\ op.start_date * TicksPerDay <= x.evaluation_date
                     /\ x.evaluation_date < (op.end_date + 1) * TicksPerDay}}
         /\ LatestFirst(ret'.l)]_vars

C13_Witness ==
    /\ pc = "idle"
    /\ op.name = "get_evaluations_by_date_range"
    /\ res = "ok"
    /\ op.start_date < op.end_date
    /\ Cardinality(evals) = 2
    /\ Len(ret.l) = 1
    /\ DATE(ret.l[1][14]) = op.end_date
    /\ ret.l[1][14] > op.end_date * TicksPerDay

WindowDays == [week |-> 7, month |-> 30, quarter |-> 90, year |-> 365]

\* C14: get_evaluations_by_period returns the stored evaluations dated no
\* more than 7 (week), 30 (month), 90 (quarter) or 365 (year, and any other
\* period) days before the time of the query, each once and no other, the
\* most recent first; the window is always one of the four lengths.
C14_PeriodWindow ==
    /\ [](\A p \in Periods : time_filter(p) \in {7, 30, 90, 365})
    /\ [][RowsReturned("get_evaluations_by_period") =>
            LET days == IF op.period \in DOMAIN WindowDays
                        THEN WindowDays[op.period] ELSE 365
            IN  /\ {ret'.l[i][1] : i \in 1..Len(ret'.l)}
                      = {e.id : e \in {x \in evals :
                            now - x.evaluation_date <= days * TicksPerDay}}
                /\ LatestFirst(ret'.l)]_vars

C14_Witness ==
    /\ pc = "idle"
    /\ op.name = "get_evaluations_by_period"
    /\ op.period = "all"
    /\ res = "ok"
    /\ Cardinality(evals) = 2
    /\ Len(ret.l) = 1
    /\ ret.l[1][14] = now - 365 * TicksPerDay

NoCriteriaRow(j) == \A n \in DOMAIN criteria : criteria[n].job_id # j

\* the handler is past the point where it settles the criteria argument
PastCriteria == fpc \in {"identity", "identity_fallback", "experience",
                         "evaluate", "returned", "saving", "done"}

\* C15: a job without criteria is in the list get_all_jobs returns, with
\* has_criteria false; get_evaluation_criteria returns None for it; the
\* handler evaluates a resume against it with criteria None and a required
\* experience of 0 years, and the record it saves carries the job's id.
C15_JobWithoutCriteria ==
    /\ []((pc = "idle" /\ op.name = "get_all_jobs" /\ res = "ok")
            => \A j \in DOMAIN jobs :
                  (jobs[j].active /\ NoCriteriaRow(j))
                     => \E r \in ret.rows : r.id = j /\ ~r.has_criteria)
    /\ []((pc = "idle" /\ op.name = "get_evaluation_criteria" /\ res = "ok"
              /\ NoCriteriaRow(op.jid))
            => ret = None)
    /\ []((PastCriteria /\ ~job.o.has_criteria)
            => /\ sel_criteria = None
               /\ (fpc \in {"evaluate", "returned", "saving", "done"}
                     => experience_analysis.o.required = Num(0))
               /\ (fpc = "done"
                     => \E e \in evals : /\ e.id = evalSeq
                                         /\ e.job_id = job.o.id
                                         /\ e.years_experience_required = Num(0)))
    /\ [][(fpc = "criteria" /\ ~job.o.has_criteria) => fpc' = "identity"]_vars

C15_Witness ==
    /\ fpc = "done"
    /\ ~job.o.has_criteria
    /\ NoCriteriaRow(job.o.id)
    /\ sel_criteria = None
    /\ \E e \in evals : e.job_id = job.o.id /\ e.result = Str("SHORTLIST")

\* C16 (as claimed): when the handler has ended, every resume submitted in
\* the interaction has been evaluated and saved, but for the one that failed
\* (the handler stops at a failure, so at most one has).
C16_BatchContinues ==
    fpc \in {"done", "failed"}
        => calls.saved = submitted - (IF fpc = "failed" THEN 1 ELSE 0)

\* C17 (as claimed): after a run of the script that leaves the components
\* unavailable, no page handler has been called: the run showed the
\* blocking notice and returned.
C17_InitFailureBlocks ==
    components # "ready" => rendered \in {"none", "blocked"}

\* C18 (as claimed): criteria round trip. Every criteria row was written by
\* add_job_description from the form's dict FormCriteria, so whenever
\* get_evaluation_criteria returns for a job that has a criteria row, the
\* dict returned equals FormCriteria field by field.
C18_CriteriaRoundTrip ==
    (pc = "idle" /\ op.name = "get_evaluation_criteria" /\ res = "ok"
        /\ ~NoCriteriaRow(op.jid))
        => ret = Obj(FormCriteria)

\* the encoded columns of a stored evaluation hold encoded text
Decodable(e) ==
    /\ e.key_matches.t = "text"
    /\ e.missing_requirements.t = "text"
    /\ e.evaluation_data.t = "text"

\* C19 (as claimed): a decode failure costs its own row only. When the
\* Evaluations tab has gone through its rows, reading each with
\* get_evaluation_details, every row whose encoded columns hold well-formed
\* encoded text has got its card with the details, whatever happened to the
\* rows before it (a row whose query the database refused aside).
C19_DecodeFailurePerRow ==
    (fpc = "listed" /\ op.name = "get_evaluation_details")
        => \A i \in DOMAIN cards :
              \A e \in evals :
                 (/\ e.id = cards[i].id
                  /\ Decodable(e)
                  /\ cards[i].logged \notin {"DatabaseError", "PoolError"})
                     => cards[i].shown = "card"

\* C20 (as claimed): a report is produced whatever expected field the
\* evaluation lacks: generate_evaluation_report and generate_summary_report
\* return the document and never raise.
C20_ReportNeverAborts ==
    report.name # "none" => ~IsRaised(report.document)

\* C21: a call of extract_text_from_upload with a declared type other than
\* PDF, DOCX and plain text ends at once in the exception, with no file_path
\* and the temporary directory as it was; a PDF goes to parse_pdf, a DOCX to
\* parse_docx, and plain text is decoded.
C21_UnsupportedTypeFails ==
    /\ [](\A s \in Sessions :
            up[s].pc # "idle" =>
               LET type == up[s].uploaded_file.type
               IN  /\ type \notin SupportedTypes
                        => /\ up[s].pc = "done"
                           /\ up[s].result = ExtractFailed
                           /\ up[s].file_path = None
                   /\ type = PdfType => up[s].reader = "parse_pdf"
                   /\ type = DocxType => up[s].reader = "parse_docx"
                   /\ type = TextType
                        => /\ up[s].reader = "decode"
                           /\ up[s].result
                                = Text(up[s].uploaded_file.content.text))
    /\ [][\A s \in Sessions :
            (/\ up[s].pc = "idle"
             /\ up'[s].pc # "idle"
             /\ up'[s].uploaded_file.type \notin SupportedTypes)
                => tmp' = tmp]_vars

C21_Witness ==
    \E s \in Sessions :
        /\ up[s].pc = "done"
        /\ up[s].uploaded_file.type = "image/png"
        /\ up[s].result = ExtractFailed
        /\ tmp = {}

\* C27 (as claimed): when a call of extract_text_from_upload that saved its
\* upload to a temporary file has ended, by returning the text or by raising,
\* the file it wrote is no longer in the temporary directory.
C27_TempFileRemoved ==
    \A s \in Sessions :
        (up[s].pc = "done" /\ up[s].file_path # None)
            => ~\E f \in tmp : /\ f.path = up[s].file_path
                               /\ f.content = up[s].uploaded_file.content

\* an upload of a supported type whose bytes are what the type says
WellFormed(uploaded_file) ==
    \/ Reader(uploaded_file.type) = "decode"
    \/ Parses(Reader(uploaded_file.type), uploaded_file.content)

\* C28 (as claimed): sessions that extract at the same time do not disturb
\* each other: a call on a well-formed upload of a supported type returns
\* the text of that upload.
C28_OwnText ==
    \A s \in Sessions :
        (up[s].pc = "done" /\ WellFormed(up[s].uploaded_file))
            => up[s].result = Text(up[s].uploaded_file.content.text)

\* C22 (as claimed): criteria are attached 1:1. No job has two criteria
\* rows, and a call of add_evaluation_criteria for a job that has criteria
\* does not fail (the server being reachable).
C22_CriteriaOneToOne ==
    /\ \A j \in DOMAIN jobs :
          Cardinality({n \in DOMAIN criteria : criteria[n].job_id = j}) <= 1
    /\ (pc = "idle" /\ op.name = "add_evaluation_criteria" /\ res # "none"
           /\ ~NoCriteriaRow(op.jid))
          => res = "ok"

\* a call of clear_evaluations returns
Cleared ==
    pc = "exec" /\ op.name = "clear_evaluations" /\ pc' = "idle" /\ res' = "ok"

\* C23: when clear_evaluations returns, no evaluation is left: the total,
\* shortlisted, rejected and today's counts are 0 and every period query and
\* date-range query selects nothing; the job rows and the criteria rows are
\* what they were.
C23_ClearEvaluations ==
    [][Cleared =>
          /\ get_total_evaluations_count(evals') = 0
          /\ get_shortlisted_count(evals') = 0
          /\ get_rejected_count(evals') = 0
          /\ get_today_evaluations_count(evals', now') = 0
          /\ \A period \in Periods :
                get_evaluations_by_period_rows(evals', jobs', period, now') = {}
          /\ \A a, b \in Days :
                get_evaluations_by_date_range_rows(evals', jobs', a, b) = {}
          /\ jobs' = jobs
          /\ criteria' = criteria]_vars

C23_Witness ==
    /\ pc = "idle" /\ op.name = "clear_evaluations" /\ res = "ok"
    /\ evals = {}
    /\ evalSeq = MaxEvals
    /\ criteria # <<>>

\* C24: the Evaluate Resume handler extracts the text, fetches the criteria,
\* evaluates and saves, in this order. A record is inserted only by the
\* handler's save_evaluation, which is called only after text extraction and
\* evaluate_resume have returned, and a handler run stores at most one
\* record; a run in which either raised stores none.
C24_SaveLastAndOnce ==
    /\ [](/\ calls.saved <= 1
          /\ calls.saved = 1 => (fpc = "done" /\ job.t = "obj"
                                    /\ evaluation.t = "obj")
          /\ fpc \in {"saving", "done"} => (job.t = "obj"
                                               /\ evaluation.t = "obj"
                                               /\ calls.evaluation = 1)
          /\ calls.evaluation = 1 => (job.t = "obj" /\ calls.experience = 1)
          /\ calls.identity >= 1 => job.t = "obj"
          /\ (fpc = "failed" /\ (job = None \/ IsRaised(evaluation)))
                => calls.saved = 0)
    /\ [][/\ evalSeq' # evalSeq
                => (/\ fpc = "saving" /\ op.name = "save_evaluation"
                    /\ evaluation.t = "obj" /\ calls.saved = 0
                    /\ evalSeq' = evalSeq + 1)
          /\ (fpc' = "saving" /\ fpc # "saving")
                => (fpc = "returned" /\ evaluation.t = "obj"
                    /\ job.t = "obj")
          /\ (job = None \/ IsRaised(evaluation) \/ fpc = "failed")
                => (evalSeq' = evalSeq /\ evals' \subseteq evals)]_vars

C24_Witness ==
    /\ fpc = "done"
    /\ calls.saved = 1
    /\ evaluation.t = "obj"
    /\ \E e \in evals : e.job_id = job.o.id

\* C25 (as claimed): in every result evaluate_resume returns,
\* years_of_experience.required is the min_years_experience of the criteria
\* in use (0 without criteria) and meets_requirement is true exactly when
\* relevant >= required, also when the experience-analysis request failed.
C25_ExperienceConsistent ==
    evaluation.t = "obj"
        => LET y == evaluation.o.years_of_experience.o
           IN  /\ y.required = Float(min_years(sel_criteria))
               /\ y.meets_requirement.b <=> (y.relevant.h >= y.required.h)

\* C26 (as claimed): while add_job_description runs with criteria, no
\* get_all_jobs of another session has returned the job it inserted (job_id)
\* with has_criteria false.
C26_JobCreationIsolated ==
    (pc # "idle" /\ op.name = "add_job_description" /\ Truthy(op.crit)
        /\ seen # None)
        => \A r \in seen.rows : r.id = job_id => r.has_criteria

\* C30 (as claimed): the job the handler works with is the one whose entry
\* the user picked: its row (id, description, has_criteria) is the job
\* looked up, its id is the one criteria are fetched for and the one the
\* record is saved under, also when several jobs have the picked title.
C30_PickedJobUsed ==
    /\ job.t = "obj" => job.o.id = selected
    /\ (fpc = "criteria_wait" /\ op.name = "get_evaluation_criteria")
          => op.jid = selected
    /\ (fpc \in {"saving", "done"} /\ op.name = "save_evaluation")
          => op.jid = selected

\* C29 (as claimed): whatever has been saved and cleared, the shortlisted
\* count and the rejected count add up to the total count: every stored
\* result is shortlist or reject in some letter case.
C29_CountsAddUp ==
    get_shortlisted_count(evals) + get_rejected_count(evals)
        = get_total_evaluations_count(evals)
====
